---------------------------- MODULE Spec2Model ----------------------------
(***************************************************************************)
(* A model of src/app.py (tenet-core): the Flask service with the bearer   *)
(* gate, the keyword context classifier, the card drawer and the parser    *)
(* of the generated reading.                                               *)
(*                                                                         *)
(* Text is modelled as a sequence of tokens.  A token is one character     *)
(* (" ", "\n", ":", "-", "w" for any other character) or one word that     *)
(* the code looks for ("Bearer", "Sintesi", "Stato", a keyword, ...).      *)
(* The en dash U+2013 of the section headers is written "--", the ASCII    *)
(* hyphen "-".                                                             *)
(***************************************************************************)
EXTENDS Integers, Sequences, FiniteSets, TLC

VARIABLES
    TENET_API_KEYS_ENV,  \* line 22: the stripped TENET_API_KEYS variable
    ALLOWED_KEYS,        \* line 185: the allow-list, parsed once at import
    KB,                  \* line 141: the knowledge base, loaded once
    OpenAI,              \* lines 10-13: the SDK class, or "None"
    OPENAI_API_KEY,      \* line 118: the provider credential in the env
    request,             \* the last request handled
    response,            \* the response it got
    trace,               \* the steps the handler ran for it, in order
    completion,          \* what the completion endpoint answered to it
    call                 \* the last direct call of a helper function

vars == <<TENET_API_KEYS_ENV, ALLOWED_KEYS, KB, OpenAI, OPENAI_API_KEY,
          request, response, trace, completion, call>>

config == <<TENET_API_KEYS_ENV, ALLOWED_KEYS, KB, OpenAI, OPENAI_API_KEY>>

---------------------------------------------------------------------------
(* Bounds of the model.                                                    *)

MaxEnvLen == 3
MaxHeaderLen == 4
MaxQuestionLen == 4
MaxPool == 4
MaxDraw == 4
MaxTextLen == 4

MaxBlocks == 3

---------------------------------------------------------------------------
(* Strings.                                                                *)

\* All token sequences over A of length at most n.
SeqsUpTo(A, n) == UNION {[1..k -> A] : k \in 0..n}

\* str.isspace of one character.
IsSpace(c) == c \in {" ", "\n", "\t"}

RECURSIVE LStripChars(_, _)
LStripChars(s, C) ==
    IF s # <<>> /\ Head(s) \in C THEN LStripChars(Tail(s), C) ELSE s

RECURSIVE RStripChars(_, _)
RStripChars(s, C) ==
    IF s # <<>> /\ s[Len(s)] \in C
    THEN RStripChars(SubSeq(s, 1, Len(s) - 1), C)
    ELSE s

\* str.strip(chars)
StripChars(s, C) == RStripChars(LStripChars(s, C), C)

\* str.strip()
Strip(s) == StripChars(s, {" ", "\n", "\t"})

\* The members of a list, as a set.
Range(s) == {s[i] : i \in DOMAIN s}

\* x in list
InList(x, s) == \E i \in DOMAIN s : s[i] = x

---------------------------------------------------------------------------
(* AUTH (lines 178-207).                                                   *)

\* The character class [,\n; ] of line 182.
IsKeySeparator(c) == c \in {",", "\n", ";", " "}

\* re.split(r"[,\n; ]+", s): the pieces between the maximal runs of
\* separators; a run at either end leaves an empty piece there.
RECURSIVE ReSplit(_, _, _)
ReSplit(s, piece, inRun) ==
    IF s = <<>> THEN <<piece>>
    ELSE IF IsKeySeparator(Head(s))
         THEN IF inRun THEN ReSplit(Tail(s), piece, TRUE)
              ELSE <<piece>> \o ReSplit(Tail(s), <<>>, TRUE)
         ELSE ReSplit(Tail(s), Append(piece, Head(s)), FALSE)

\* [x.strip() for x in raw if x.strip()]
RECURSIVE StripNonEmpty(_)
StripNonEmpty(raw) ==
    IF raw = <<>> THEN <<>>
    ELSE IF Strip(Head(raw)) # <<>>
         THEN <<Strip(Head(raw))>> \o StripNonEmpty(Tail(raw))
         ELSE StripNonEmpty(Tail(raw))

parse_allowed_keys(env) ==
    IF env = <<>> THEN <<>>
    ELSE StripNonEmpty(ReSplit(env, <<>>, FALSE))

\* "Bearer" under re.IGNORECASE.
IsBearerWord(t) == t \in {"Bearer", "bearer", "BEARER"}

RECURSIVE LeadingSpaces(_)
LeadingSpaces(s) ==
    IF s # <<>> /\ IsSpace(Head(s)) THEN 1 + LeadingSpaces(Tail(s)) ELSE 0

\* re.match(r"Bearer\s+(.+)", h, re.IGNORECASE): group 1, or "" (<<>>) when
\* there is no match.  \s+ is greedy and gives back one character when
\* nothing is left for (.+).  matched tells the two apart.
BearerMatch(h) ==
    IF h = <<>> \/ ~IsBearerWord(Head(h))
    THEN [matched |-> FALSE, group |-> <<>>]
    ELSE LET rest == Tail(h)
             k == LeadingSpaces(rest)
         IN  IF k >= 1 /\ k < Len(rest)
             THEN [matched |-> TRUE, group |-> SubSeq(rest, k + 1, Len(rest))]
             ELSE IF k >= 2
                  THEN [matched |-> TRUE, group |-> <<rest[k]>>]
                  ELSE [matched |-> FALSE, group |-> <<>>]

\* A missing Authorization header reads as "" (headers.get default).
extract_bearer_key(req) ==
    LET h == req.header
    IN  IF h = <<>> THEN <<>>
        ELSE LET m == BearerMatch(h)
             IN  IF m.matched THEN Strip(m.group) ELSE <<>>

\* Variant: with an empty allow-list every key passes.
require_key_open(req) ==
    LET key == extract_bearer_key(req)
    IN  IF key = <<>> THEN FALSE
        ELSE IF ALLOWED_KEYS # <<>> /\ ~InList(key, ALLOWED_KEYS) THEN FALSE
        ELSE TRUE

require_key(req) ==
    LET key == extract_bearer_key(req)
    IN  IF key = <<>> THEN FALSE
        ELSE IF ALLOWED_KEYS # <<>> /\ ~InList(key, ALLOWED_KEYS) THEN FALSE
        ELSE ALLOWED_KEYS # <<>>

---------------------------------------------------------------------------
(* CONTEXT (lines 37-73).                                                  *)

CONTEXTS == <<"relazioni", "lavoro", "crescita", "scelta", "neutro">>

CONTEXT_KEYWORDS ==
    [relazioni |-> <<"amore", "relazione", "coppia", "partner", "fidanz",
                     "marito", "moglie", "gelosia", "tradimento", "ex",
                     "sentimenti">>,
     lavoro    |-> <<"lavoro", "carriera", "colloquio", "azienda", "capo",
                     "progetto", "business", "clienti", "soldi", "denaro",
                     "stipendio", "fatturato", "contratto", "studio">>,
     crescita  |-> <<"ansia", "paura", "blocco", "crescita",
                     "consapevolezza", "autostima", "energia", "chakra",
                     "percorso", "guarigione", "stress", "equilibrio">>,
     scelta    |-> <<"scegliere", "scelta", "bivio", "decisione", "decidere",
                     "lasciare", "cambiare", "trasferir", "rinuncia",
                     "opzione", "strada", "direzione">>]

\* The words a question is made of in this model: white space, a character
\* that is part of no keyword, and words that hold a keyword.
QuestionWords ==
    {" ", "w", "amore", "ex", "lavoro", "LAVORO", "soldi", "ansia",
     "lasciare", "fidanzato"}

\* str.lower() of one word.
LowerWord(t) == IF t = "LAVORO" THEN "lavoro" ELSE t

\* str.lower()
Lower(s) == [i \in DOMAIN s |-> LowerWord(s[i])]

\* len() of one word, in characters.
WordLen(t) ==
    CASE t \in {"amore", "soldi", "ansia"} -> 5
      [] t \in {"lavoro", "LAVORO"} -> 6
      [] t = "ex" -> 2
      [] t = "lasciare" -> 8
      [] t = "fidanzato" -> 9
      [] OTHER -> 1

\* len(s), in characters.
RECURSIVE StrLen(_)
StrLen(s) == IF s = <<>> THEN 0 ELSE WordLen(Head(s)) + StrLen(Tail(s))

\* kw in word: the keywords that are substrings of a (lower-cased) word.
\* No keyword is a substring of another, and none straddles two words here.
KeywordInWord(kw, t) ==
    \/ kw = t /\ t \in {"amore", "ex", "lavoro", "soldi", "ansia", "lasciare"}
    \/ kw = "fidanz" /\ t = "fidanzato"

\* kw in q (line 67)
KeywordIn(kw, q) == \E i \in DOMAIN q : KeywordInWord(kw, q[i])

\* scores[ctx] after the loops of lines 64-68; "neutro" has no keywords.
Score(ctx, q) ==
    IF ctx = "neutro" THEN 0
    ELSE Cardinality({i \in DOMAIN CONTEXT_KEYWORDS[ctx] :
                         KeywordIn(CONTEXT_KEYWORDS[ctx][i], q)})

\* Variant: the last of the contexts with the highest score.
RECURSIVE MaxFromLast(_, _, _)
MaxFromLast(i, best, q) ==
    IF i > Len(CONTEXTS) THEN best
    ELSE IF Score(CONTEXTS[i], q) >= Score(best, q)
         THEN MaxFromLast(i + 1, CONTEXTS[i], q)
         ELSE MaxFromLast(i + 1, best, q)

\* max(scores, key=...): the first key, in the order of CONTEXTS, whose
\* score no other key's exceeds.
RECURSIVE MaxFrom(_, _, _)
MaxFrom(i, best, q) ==
    IF i > Len(CONTEXTS) THEN best
    ELSE IF Score(CONTEXTS[i], q) > Score(best, q)
         THEN MaxFrom(i + 1, CONTEXTS[i], q)
         ELSE MaxFrom(i + 1, best, q)

detect_context(question) ==
    LET q == Strip(Lower(question))
    IN  IF q = <<>> THEN "neutro"
        ELSE LET best_ctx == MaxFrom(2, CONTEXTS[1], q)
             IN  IF Score(best_ctx, q) = 0 THEN "neutro" ELSE best_ctx

---------------------------------------------------------------------------
(* KNOWLEDGE BASE (lines 127-155).                                         *)

\* A card of the knowledge file: its name, and whether the entry is a JSON
\* object (card.get works) or something else (card.get raises).
Card(n, isDict) == [name |-> n, dict |-> isDict]

\* The knowledge base: {"cards": [...]}, a bare list, or any other JSON.
all_cards ==
    IF KB.shape \in {"cards_dict", "list"} THEN KB.entries ELSE <<>>

\* Variant: n positions picked with replacement.
SamplesWithReplacement(size, n) == [1..n -> 1..size]

\* random.sample(population, n): n positions of the population, all
\* different, in any order.
Samples(size, n) ==
    {s \in [1..n -> 1..size] : \A i, j \in 1..n : i # j => s[i] # s[j]}

\* draw_cards(n), with the positions random.sample picks.
draw_cards(n, sample) ==
    LET cards == all_cards
    IN  IF Len(cards) < n THEN cards
        ELSE [i \in 1..n |-> cards[sample[i]]]

---------------------------------------------------------------------------
(* The parser of the generated text (lines 274-326).                       *)

APP_VERSION == "2.0.0-tenet-context"

DEFAULT_DECK_NAME == <<"tarot_demo">>

\* The labels of SPREAD_THREE_CARDS, which the block pattern looks for.
Labels == {"Stato", "Dinamica", "Direzione"}

\* The character class [--] of the patterns: en dash or hyphen.
IsDash(c) == c \in {"--", "-"}

\* The first position at or after i that holds no white space (Len+1: none).
RECURSIVE SkipSpaces(_, _)
SkipSpaces(t, i) ==
    IF i <= Len(t) /\ IsSpace(t[i]) THEN SkipSpaces(t, i + 1) ELSE i

\* The first position at or after i that holds a line break (Len+1: none).
RECURSIVE LineEnd(_, _)
LineEnd(t, i) ==
    IF i <= Len(t) /\ t[i] # "\n" THEN LineEnd(t, i + 1) ELSE i

\* (Stato|Dinamica|Direzione)\s*[--] matched at i: the position after the
\* dash, or 0 when it does not match there.
HeaderAt(t, i) ==
    IF i <= Len(t) /\ t[i] \in Labels
    THEN LET j == SkipSpaces(t, i + 1)
         IN  IF j <= Len(t) /\ IsDash(t[j]) THEN j + 1 ELSE 0
    ELSE 0

\* \s*([^\n]+)\n after the dash at d-1: where group 2 starts.  \s* is greedy:
\* the longest run of white space is tried first (st = the first character
\* after it), then shorter ones; group 2 runs to the end of its line, which a
\* line break must follow.  0: no way to match.
RECURSIVE NameStart(_, _, _)
NameStart(t, d, st) ==
    IF st < d THEN 0
    ELSE IF st <= Len(t) /\ t[st] # "\n" /\ LineEnd(t, st) <= Len(t) THEN st
    ELSE NameStart(t, d, st - 1)

\* (.*?)(?=\n(Stato|Dinamica|Direzione)\s*[--]|\Z) from j: the first
\* position where the lookahead holds.
RECURSIVE BodyEnd(_, _)
BodyEnd(t, j) ==
    IF j > Len(t) \/ (t[j] = "\n" /\ HeaderAt(t, j + 1) # 0) THEN j
    ELSE BodyEnd(t, j + 1)

\* re.sub(r"\s+", " ", s)
RECURSIVE CollapseSpaces(_, _)
CollapseSpaces(s, inRun) ==
    IF s = <<>> THEN <<>>
    ELSE IF IsSpace(Head(s))
         THEN IF inRun THEN CollapseSpaces(Tail(s), TRUE)
              ELSE <<" ">> \o CollapseSpaces(Tail(s), TRUE)
         ELSE <<Head(s)>> \o CollapseSpaces(Tail(s), FALSE)

\* block_pattern matched at position i of main (line 306).
BlockAt(t, i) ==
    LET d  == HeaderAt(t, i)
        st == IF d = 0 THEN 0 ELSE NameStart(t, d, SkipSpaces(t, d))
    IN  IF st = 0 THEN [found |-> FALSE, title |-> <<>>, body |-> <<>>, end |-> i]
        ELSE LET e == LineEnd(t, st)
                 j == BodyEnd(t, e + 1)
                 card_name == Strip(SubSeq(t, st, e - 1))
                 body == Strip(CollapseSpaces(SubSeq(t, e + 1, j - 1), FALSE))
             IN  [found |-> TRUE,
                  title |-> <<t[i], " ", "--", " ">> \o card_name,
                  body  |-> body,
                  end   |-> j]

\* The loop over block_pattern.finditer(main) (lines 307-314): the matches
\* from left to right, none overlapping.
RECURSIVE FindBlocks(_, _)
FindBlocks(t, i) ==
    IF i > Len(t) THEN <<>>
    ELSE LET m == BlockAt(t, i)
         IN  IF m.found
             THEN <<[title |-> m.title, body |-> m.body]>> \o FindBlocks(t, m.end)
             ELSE FindBlocks(t, i + 1)

\* \n\s*\n matched at i.
BlankLineAt(t, i) ==
    /\ t[i] = "\n"
    /\ \E k \in (i + 1)..(SkipSpaces(t, i + 1) - 1) : t[k] = "\n"

\* Stato\s*[--] matched at i.
StatoAt(t, i) == t[i] = "Stato" /\ HeaderAt(t, i) # 0

\* re.split(r"\n\s*\n|Stato\s*[--]", main, maxsplit=1)[0]: main up to the
\* leftmost match (all of main when there is none).
RECURSIVE IntroEnd(_, _)
IntroEnd(t, i) ==
    IF i > Len(t) \/ BlankLineAt(t, i) \/ StatoAt(t, i) THEN i - 1
    ELSE IntroEnd(t, i + 1)

\* "Sintesi" in text, and text.split("Sintesi", 1): the first occurrence.
RECURSIVE FirstSintesi(_, _)
FirstSintesi(t, i) ==
    IF i > Len(t) THEN 0
    ELSE IF t[i] = "Sintesi" THEN i ELSE FirstSintesi(t, i + 1)

\* Lines 283-288: main and synthesis.
SplitSintesi(text) ==
    LET k == FirstSintesi(text, 1)
    IN  IF k # 0
        THEN [main |-> Strip(SubSeq(text, 1, k - 1)),
              synthesis |-> StripChars(SubSeq(text, k + 1, Len(text)),
                                       {" ", ":", "\n", "\t", "-"})]
        ELSE [main |-> text, synthesis |-> <<>>]

\* Variant: no section stands in.
NoFallbackSections(sections, text) == sections

\* Variant: the section that stands in holds the text before "Sintesi".
FallbackMainOnly(sections, text) ==
    IF sections = <<>>
    THEN <<[title |-> <<"Lettura">>, body |-> SplitSintesi(text).main]>>
    ELSE sections

\* Lines 316-318: the section that stands in when no block matched.
FallbackSections(sections, text) ==
    IF sections = <<>> THEN <<[title |-> <<"Lettura">>, body |-> text]>>
    ELSE sections

\* Lines 274-326: from resp.output_text (None reads as "") to the reading.
ParseReading(output_text, context) ==
    LET text  == Strip(output_text)
        split == SplitSintesi(text)
        main  == split.main
    IN  [context       |-> context,
         intro         |-> Strip(SubSeq(main, 1, IntroEnd(main, 1))),
         card_sections |-> FallbackSections(FindBlocks(main, 1), text),
         synthesis     |-> split.synthesis]

---------------------------------------------------------------------------
(* Requests and responses.                                                 *)

\* A field of the JSON body.  "absent" stands for a missing key and for any
\* falsy value but the empty string (null, 0, false, []): "x or default"
\* takes the default for all of them.  "non_str" is a truthy value that is
\* no string (a number, a list): .strip() raises AttributeError on it.
Absent == [kind |-> "absent", val |-> <<>>]

Str(s) == [kind |-> "str", val |-> s]

NonStr == [kind |-> "non_str", val |-> <<>>]

\* payload.get(k) or default, for a field that is absent or a string.
OrDefault(f, default) ==
    IF f.kind = "str" /\ f.val # <<>> THEN f.val ELSE default

\* The body as request.get_json(silent=True) or {} sees it: "none" is no
\* body, invalid JSON or a falsy JSON value (payload = {}); "object" a JSON
\* object; "non_object" a truthy JSON value that is no object.
NoBody ==
    [kind |-> "none", question |-> Absent, language |-> Absent,
     spread |-> Absent, deck |-> Absent]

Body(q, l, s, d) ==
    [kind |-> "object", question |-> q, language |-> l, spread |-> s,
     deck |-> d]

NonObjectBody == [NoBody EXCEPT !.kind = "non_object"]

NoMeta == [version |-> "", deck |-> <<>>, spread |-> "", cards |-> <<>>]

\* The dict generate_reading returns (lines 320-326), here empty.
NoReading ==
    [context |-> "", intro |-> <<>>, card_sections |-> <<>>,
     synthesis |-> <<>>]

\* out["meta"] = ... (line 353)
WithMeta(out, meta) == out @@ [meta |-> meta]

NoOut == WithMeta(NoReading, NoMeta)

NoResponse == [status |-> 0, code |-> "", message |-> "", out |-> NoOut]

Response(s, c, m, o) == [status |-> s, code |-> c, message |-> m, out |-> o]

\* Lines 194-198.
unauthorized == Response(401, "UNAUTHORIZED", "Invalid TENET API key", NoOut)

\* Lines 337 and 345.
bad_request(m) == Response(400, "BAD_REQUEST", m, NoOut)

\* Variant: the exception leaves the handler.
server_error_escapes(e) == Response(500, "", e, NoOut)

\* Line 361.
server_error(e) == Response(500, "SERVER_ERROR", e, NoOut)

\* An exception that leaves the view function: Flask answers 500 with its
\* own error page, which carries no error code of the service.
unhandled(e) == Response(500, "", e, NoOut)

AttributeError == "AttributeError"

\* The outcome of client.responses.create (lines 265-272): a text, a
\* response whose output_text is None, or an exception.
UpstreamText(t) == [kind |-> "text", text |-> t, message |-> ""]

UpstreamNone == [kind |-> "none", text |-> <<>>, message |-> ""]

UpstreamError(e) == [kind |-> "error", text |-> <<>>, message |-> e]

NotCalled == [kind |-> "not_called", text |-> <<>>, message |-> ""]

---------------------------------------------------------------------------
(* generate_reading (lines 234-326) and the handlers (lines 217-361).      *)

\* Lines 115-121: the message of the RuntimeError raised, "" when the client
\* is built.
ensure_openai_client ==
    IF OpenAI = "None"
    THEN "OpenAI SDK non disponibile. Verifica requirements.txt."
    ELSE IF Strip(OPENAI_API_KEY) = <<>>
         THEN "OPENAI_API_KEY mancante nelle env di Render."
         ELSE ""

\* Lines 158-172 and 241: card_brief reads the card with card.get, which
\* raises when the entry of the knowledge file is no JSON object.
CardBriefRaises(cards) == \E i \in DOMAIN cards : ~cards[i].dict

\* Variant: a failed completion call is made a second time.
generate_reading_retry(question, cards, context, upstream) ==
    IF ensure_openai_client # ""
    THEN [steps |-> <<"ensure_openai_client">>,
          error |-> ensure_openai_client, out |-> NoReading]
    ELSE IF CardBriefRaises(cards)
    THEN [steps |-> <<"ensure_openai_client", "card_brief">>,
          error |-> AttributeError, out |-> NoReading]
    ELSE IF upstream.kind = "error"
    THEN [steps |-> <<"ensure_openai_client", "card_brief",
                      "responses.create", "responses.create">>,
          error |-> upstream.message, out |-> NoReading]
    ELSE [steps |-> <<"ensure_openai_client", "card_brief",
                      "responses.create", "parse">>,
          error |-> "",
          out   |-> ParseReading(upstream.text, context)]

\* The steps generate_reading ran, the exception it raised ("" for none)
\* and the dict it returned.
generate_reading(question, cards, context, upstream) ==
    LET e == ensure_openai_client
    IN  IF e # ""
        THEN [steps |-> <<"ensure_openai_client">>, error |-> e,
              out |-> NoReading]
        ELSE IF CardBriefRaises(cards)
        THEN [steps |-> <<"ensure_openai_client", "card_brief">>,
              error |-> AttributeError, out |-> NoReading]
        ELSE IF upstream.kind = "error"
        THEN [steps |-> <<"ensure_openai_client", "card_brief",
                          "responses.create">>,
              error |-> upstream.message, out |-> NoReading]
        ELSE [steps |-> <<"ensure_openai_client", "card_brief",
                          "responses.create", "parse">>,
              error |-> "",
              out   |-> ParseReading(upstream.text, context)]

\* Variant: a question of four characters passes.
question_shorter_than_four(question) == StrLen(question) < 4

\* Line 336: len(question) < 5
question_too_short(question) == StrLen(question) < 5

\* Variant: the empty spread is refused too.
spread_not_exact(spread) == spread # <<"three_cards_v1">>

\* Line 344: spread and spread != "three_cards_v1"
spread_unsupported(spread) == spread # <<>> /\ spread # <<"three_cards_v1">>

\* Lines 331-345 of v1_reading: the checks that end a request early.
\* done tells whether they did; otherwise question and deck are the values
\* the rest of the handler uses.
v1_reading_checks(req) ==
    LET payload == req.body
        question == Strip(OrDefault(payload.question, <<>>))
        spread == Strip(OrDefault(payload.spread, <<>>))
        deck == Strip(OrDefault(payload.deck, DEFAULT_DECK_NAME))
        Stop(r, t) == [done |-> TRUE, response |-> r, trace |-> t,
                       question |-> <<>>, deck |-> <<>>]
    IN  IF ~require_key(req)
        THEN Stop(unauthorized, <<"require_key">>)
        ELSE IF payload.kind = "non_object" \/ payload.question.kind = "non_str"
        THEN Stop(unhandled(AttributeError), <<"require_key">>)
        ELSE IF question_too_short(question)
        THEN Stop(bad_request("Domanda troppo breve"),
                  <<"require_key", "question">>)
        ELSE IF \/ payload.language.kind = "non_str"
                \/ payload.spread.kind = "non_str"
                \/ payload.deck.kind = "non_str"
        THEN Stop(unhandled(AttributeError), <<"require_key", "question">>)
        ELSE IF spread_unsupported(spread)
        THEN Stop(bad_request("Spread non supportato in demo"),
                  <<"require_key", "question", "spread">>)
        ELSE [done |-> FALSE, response |-> NoResponse,
              trace |-> <<"require_key", "question", "spread">>,
              question |-> question, deck |-> deck]

\* v1_reading (lines 329-361), with the positions random.sample picks and
\* the outcome of the completion call.
v1_reading(req, sample, upstream) ==
    LET c == v1_reading_checks(req)
    IN  IF c.done THEN [response |-> c.response, trace |-> c.trace]
        ELSE LET ctx == detect_context(c.question)
                 cards == draw_cards(3, sample)
                 g == generate_reading(c.question, cards, ctx, upstream)
                 t == c.trace \o <<"detect_context", "draw_cards">> \o g.steps
                 meta == [version |-> APP_VERSION,
                          deck    |-> c.deck,
                          spread  |-> "three_cards_v1",
                          cards   |-> [i \in DOMAIN cards |-> cards[i].name]]
             IN  IF g.error # ""
                 THEN [response |-> server_error(g.error), trace |-> t]
                 ELSE [response |-> Response(200, "", "",
                                       WithMeta(g.out, meta)),
                       trace |-> t]

\* health (lines 222-231)
health(req) ==
    IF ~require_key(req)
    THEN [response |-> unauthorized, trace |-> <<"require_key">>]
    ELSE [response |-> Response(200, "", "", NoOut),
          trace |-> <<"require_key">>]

---------------------------------------------------------------------------
(* The inputs the model draws from.                                        *)

\* Knowledge files: pools of 0..MaxPool cards named 1, 2, ... of which at
\* most one entry is no JSON object, as {"cards": [...]} or as a bare list,
\* and a file that holds neither.  The built-in fallback of lines 130-136
\* is the pool of three cards under "cards_dict".
Pool(k, bad) == [i \in 1..k |-> Card(i, i # bad)]

KnowledgeBases ==
    {[shape |-> "cards_dict", entries |-> Pool(k, bad)] :
        k \in 0..MaxPool, bad \in 0..MaxPool}
    \cup {[shape |-> "list", entries |-> Pool(k, 0)] : k \in 0..MaxPool}
    \cup {[shape |-> "other", entries |-> Pool(1, 0)]}

FallbackKB == [shape |-> "cards_dict", entries |-> Pool(3, 0)]

SomeKBs ==
    {FallbackKB,
     [shape |-> "cards_dict", entries |-> Pool(3, 2)],
     [shape |-> "cards_dict", entries |-> Pool(2, 0)],
     [shape |-> "list", entries |-> Pool(4, 0)],
     [shape |-> "other", entries |-> Pool(1, 0)]}

\* Values of the TENET_API_KEYS variable.
EnvAlphabet == {"a", "b", ","}

SomeEnvs == {<<>>, <<"a">>, <<" ", "a", ";", " ", "b">>}

AllEnvs == SeqsUpTo(EnvAlphabet, MaxEnvLen) \cup SomeEnvs

\* Authorization headers; <<>> is a missing or an empty header.
HeaderAlphabet == {"Bearer", " ", "a", "b"}

SomeHeaders ==
    {<<>>, <<"Bearer", " ", "a">>, <<"bearer", " ", " ", "b", " ">>,
     <<"Bearer", "a">>, <<"a">>}

AllHeaders == SeqsUpTo(HeaderAlphabet, MaxHeaderLen) \cup SomeHeaders

\* Questions: too short, too short once trimmed, and long enough.
SomeQuestions ==
    {Absent, NonStr, Str(<<>>), Str(<<"w", "w", "w", "w">>),
     Str(<<" ", "w", "w", "w", "w", " ">>), Str(<<"ex", " ", " ", " ">>),
     Str(<<"w", "w", "w", "w", "w">>), Str(<<" ", "amore", "\n">>),
     Str(<<"lasciare", " ", "LAVORO">>)}

SomeSpreads ==
    {Absent, NonStr, Str(<<>>), Str(<<" ">>), Str(<<"three_cards_v1">>),
     Str(<<" ", "three_cards_v1", "\n">>), Str(<<"celtic_cross">>),
     Str(<<"three_cards_v1", "w">>), Str(<<" ", "w">>)}

SomeLanguages == {Absent, NonStr, Str(<<"EN">>)}

SomeDecks == {Absent, NonStr, Str(<<" ", "marsiglia">>)}

SomeBodies ==
    {NoBody, NonObjectBody}
    \cup {Body(q, l, s, d) : q \in SomeQuestions, l \in SomeLanguages,
                            s \in SomeSpreads, d \in SomeDecks}

Request(endpoint, header, body) ==
    [endpoint |-> endpoint, header |-> header, body |-> body]

NoRequest == Request("", <<>>, NoBody)

\* The characters and words the parser tells apart.
TextAlphabet ==
    {"Stato", "Dinamica", "Direzione", "Sintesi", "--", "-", "\n", " ", "w"}

\* A text in the layout the prompt asks for (lines 256-260): an intro, the
\* three headers "Stato - <card>", "Dinamica - <card>", "Direzione - <card>"
\* in that order, each on a line of its own and followed by its sentences,
\* and a closing "Sintesi" followed by its sentences.
Header(label, dash, name) == <<label, " ", dash, " ">> \o name \o <<"\n">>

Layout(intro, gap, dash, name, b1, b2, b3, colon, synthesis) ==
    intro \o gap \o Header("Stato", dash, name) \o b1
          \o gap \o Header("Dinamica", dash, name) \o b2
          \o gap \o Header("Direzione", dash, name) \o b3
          \o gap \o <<"Sintesi">> \o colon \o synthesis

\* Sentences that name no section label and do not use the word "Sintesi".
PlainSentences == {<<"w">>, <<"w", " ", "w">>, <<"w", "\n", "w">>}

\* Sentences as the generator may write them: the word "Sintesi" may occur.
Sentences == PlainSentences \cup {<<"w", " ", "Sintesi", " ", "w">>}

Gaps == {<<"\n">>, <<"\n", "\n">>}

Dashes == {"--", "-"}

CardNames == {<<"w">>, <<"w", " ", "w">>}

Colons == {<<"\n">>, <<":", " ">>, <<" ", "w", "\n">>}

LayoutTextsOver(S) ==
    {Layout(intro, gap, dash, name, b1, b2, b3, colon, <<"w">>) :
        intro \in {<<"w">>, <<"w", " ", "w">>}, gap \in Gaps,
        dash \in Dashes, name \in CardNames,
        b1 \in S, b2 \in S, b3 \in S, colon \in Colons}

LayoutTexts == LayoutTextsOver(Sentences)

PlainLayoutTexts == LayoutTextsOver(PlainSentences)

\* Texts made of up to three blocks under any labels, with or without an
\* intro and a closing "Sintesi".
Block(label) == Header(label, "--", <<"w">>) \o <<"w", "\n">>

RECURSIVE Blocks(_)
Blocks(labels) ==
    IF labels = <<>> THEN <<>> ELSE Block(Head(labels)) \o Blocks(Tail(labels))

BlockTexts ==
    {intro \o Blocks(labels) \o synthesis :
        intro \in {<<>>, <<"w", "\n">>},
        labels \in SeqsUpTo(Labels, MaxBlocks),
        synthesis \in {<<>>, <<"Sintesi", ":", " ", "w">>}}

SomeTexts ==
    {<<>>, <<"w">>, <<"Stato", "-", "w", "\n", "w">>,
     Layout(<<"w">>, <<"\n", "\n">>, "--", <<"w">>, <<"w">>, <<"w">>, <<"w">>,
            <<"\n">>, <<"w">>)}

UpstreamErrors == {"Connection error.", "Rate limit reached"}

Upstreams(texts) ==
    {UpstreamText(t) : t \in texts} \cup {UpstreamNone}
    \cup {UpstreamError(e) : e \in UpstreamErrors}

---------------------------------------------------------------------------
(* The service.                                                            *)

NoCall == [fn |-> "", arg |-> <<>>, result |-> <<>>]

\* Import of the module: the configuration is read once (lines 21-25, 141,
\* 185) and no request has been handled.
Start(envs, kbs, sdks, credentials) ==
    /\ \E raw \in envs :
          /\ TENET_API_KEYS_ENV = Strip(raw)
          /\ ALLOWED_KEYS = parse_allowed_keys(Strip(raw))
    /\ KB \in kbs
    /\ OpenAI \in sdks
    /\ OPENAI_API_KEY \in credentials
    /\ request = NoRequest
    /\ response = NoResponse
    /\ trace = <<>>
    /\ completion = NotCalled
    /\ call = NoCall

\* Requests are handled one at a time, each on its own: a handler reads the
\* configuration and the request, and nothing of an earlier request.
Idle == request = NoRequest

Answer(req, r, upstream) ==
    /\ request' = req
    /\ response' = r.response
    /\ trace' = r.trace
    /\ completion' = IF InList("responses.create", r.trace)
                     THEN upstream ELSE NotCalled
    /\ UNCHANGED <<config, call>>

\* GET / (lines 217-219): no key is asked for.
Root ==
    /\ Idle
    /\ \E h \in SomeHeaders :
        Answer(Request("GET /", h, NoBody),
               [response |-> Response(200, "", "", NoOut), trace |-> <<>>],
               NotCalled)

\* GET /health
Health(headers) ==
    /\ Idle
    /\ \E h \in headers :
        LET req == Request("GET /health", h, NoBody)
        IN  Answer(req, health(req), NotCalled)

\* The positions random.sample may pick for draw_cards(n).
SampleChoices(n) ==
    IF Len(all_cards) < n THEN {<<>>} ELSE Samples(Len(all_cards), n)

\* POST /v1/reading
V1Reading(headers, bodies, upstreams) ==
    /\ Idle
    /\ \E h \in headers, b \in bodies :
        LET req == Request("POST /v1/reading", h, b)
        IN  IF v1_reading_checks(req).done
            THEN Answer(req, v1_reading(req, <<>>, NotCalled), NotCalled)
            ELSE \E sample \in SampleChoices(3), u \in upstreams :
                    \E r \in {v1_reading(req, sample, u)} : Answer(req, r, u)

\* The response is sent and the worker waits for the next request.
Return ==
    /\ ~Idle
    /\ request' = NoRequest
    /\ response' = NoResponse
    /\ trace' = <<>>
    /\ completion' = NotCalled
    /\ UNCHANGED <<config, call>>

Init == Start(SomeEnvs, SomeKBs, {"OpenAI", "None"}, {<<>>, <<"sk">>})

ServeHealth == Health(SomeHeaders)

ServeReading == V1Reading(SomeHeaders, SomeBodies, Upstreams(SomeTexts))

Next == Root \/ ServeHealth \/ ServeReading \/ Return

Spec == Init /\ [][Next]_vars

---------------------------------------------------------------------------
(* The gate alone: every allow-list and every header within the bounds.    *)

GoodHeader == <<"Bearer", " ", "a">>

GoodBody ==
    Body(Str(<<"lasciare", " ", "LAVORO">>), Absent, Absent, Absent)

InitAuth == Start(AllEnvs, {FallbackKB}, {"OpenAI"}, {<<"sk">>})

AuthHealth == Health(AllHeaders)

AuthReading == V1Reading(AllHeaders, {NoBody}, {UpstreamNone})

NextAuth == AuthHealth \/ AuthReading \/ Return

SpecAuth == InitAuth /\ [][NextAuth]_vars

---------------------------------------------------------------------------
(* Direct calls of detect_context and draw_cards.                          *)

InitOne == Start({<<"a">>}, {FallbackKB}, {"OpenAI"}, {<<"sk">>})

DetectContext ==
    /\ call = NoCall
    /\ \E q \in SeqsUpTo(QuestionWords, MaxQuestionLen) :
          call' = [fn |-> "detect_context", arg |-> q,
                   result |-> detect_context(q)]
    /\ UNCHANGED <<config, request, response, trace, completion>>

\* The caller drops the result.
Forget ==
    /\ call # NoCall
    /\ call' = NoCall
    /\ UNCHANGED <<config, request, response, trace, completion>>

NextContext == DetectContext \/ Forget

SpecContext == InitOne /\ [][NextContext]_vars

InitDraw == Start({<<"a">>}, KnowledgeBases, {"OpenAI"}, {<<"sk">>})

DrawCards ==
    /\ call = NoCall
    /\ Idle
    /\ \E n \in 0..MaxDraw :
          \E sample \in SampleChoices(n) :
              call' = [fn |-> "draw_cards", arg |-> n,
                       result |-> draw_cards(n, sample)]
    /\ UNCHANGED <<config, request, response, trace, completion>>

DrawReading ==
    /\ call = NoCall
    /\ V1Reading({GoodHeader}, {GoodBody}, {UpstreamText(<<"w">>)})

NextDraw == DrawCards \/ Forget \/ DrawReading \/ Return

SpecDraw == InitDraw /\ [][NextDraw]_vars

---------------------------------------------------------------------------
(* The parser: every text within the bounds, and the texts in the layout   *)
(* the prompt asks for.                                                    *)

ParseTexts ==
    SeqsUpTo(TextAlphabet, MaxTextLen) \cup LayoutTexts \cup BlockTexts

InitParse ==
    Start({<<"a">>}, {[shape |-> "cards_dict", entries |-> Pool(2, 0)]},
          {"OpenAI"}, {<<"sk">>})

ParseReply ==
    V1Reading({GoodHeader}, {GoodBody},
              {UpstreamText(t) : t \in ParseTexts} \cup {UpstreamNone})

NextParse == ParseReply \/ Return

SpecParse == InitParse /\ [][NextParse]_vars

---------------------------------------------------------------------------
(* The claims.                                                             *)

IsHealth == request.endpoint = "GET /health"

IsReading == request.endpoint = "POST /v1/reading"

\* The response is the error body {"ok": false, "error": {code, message}}
\* under the given status.
Failed(status, code, message) ==
    /\ response.status = status
    /\ response.code = code
    /\ response.message = message
    /\ response.out = NoOut

\* The allow-list is not empty and holds the token of the header.
TokenAllowed ==
    /\ ALLOWED_KEYS # <<>>
    /\ InList(extract_bearer_key(request), ALLOWED_KEYS)

\* The question of the request is a string (or missing) that, trimmed, has
\* at least five characters.
QuestionValid ==
    /\ request.body.kind = "object"
    /\ request.body.question.kind = "str"
    /\ StrLen(Strip(request.body.question.val)) >= 5

\* Every field of the body is a string or missing, as the interface has it.
FieldsTyped ==
    /\ request.body.kind # "non_object"
    /\ \A f \in {request.body.question, request.body.language,
                 request.body.spread, request.body.deck} : f.kind # "non_str"

\* C1: on GET /health and POST /v1/reading a request is let in if and only
\* if the allow-list is not empty and holds the bearer token of its
\* Authorization header; every other request (no header, a header that is
\* no "Bearer <token>", a token the list does not hold, an empty list) gets
\* 401 UNAUTHORIZED.
C1_AuthGate ==
    (IsHealth \/ IsReading) =>
        /\ (response.status # 401) <=> TokenAllowed
        /\ ~TokenAllowed => Failed(401, "UNAUTHORIZED", "Invalid TENET API key")
        /\ ALLOWED_KEYS = <<>> => response.status = 401
        /\ (request.header = <<>> \/ ~IsBearerWord(Head(request.header)))
              => response.status = 401
        /\ \A i \in DOMAIN ALLOWED_KEYS :
              request.header = <<"Bearer", " ">> \o ALLOWED_KEYS[i]
                  => response.status # 401

C1_Witness ==
    /\ IsHealth
    /\ response.status = 200
    /\ Len(ALLOWED_KEYS) = 2
    /\ extract_bearer_key(request) = ALLOWED_KEYS[2]
    /\ ALLOWED_KEYS[1] # ALLOWED_KEYS[2]

\* C2: an authorized POST /v1/reading whose question is missing, empty or,
\* once trimmed, shorter than five characters gets 400 BAD_REQUEST,
\* whatever the language, spread and deck fields hold.
C2_ShortQuestion ==
    ( /\ IsReading
      /\ TokenAllowed
      /\ request.body.kind # "non_object"
      /\ request.body.question.kind # "non_str"
      /\ StrLen(Strip(request.body.question.val)) < 5 )
    => /\ response.status = 400
       /\ response.code = "BAD_REQUEST"

C2_Witness ==
    /\ IsReading
    /\ request.body.question = Str(<<" ", "w", "w", "w", "w", " ">>)
    /\ request.body.language = NonStr
    /\ request.body.spread = Str(<<"celtic_cross">>)
    /\ response.status = 400
    /\ response.message = "Domanda troppo breve"

\* C3 as claimed: with a valid question, a spread that is given as any
\* string other than exactly "three_cards_v1" gets 400 BAD_REQUEST.  (Stated
\* here for the requests whose fields are all strings or missing.)
C3_ExactSpreadOnly ==
    ( /\ IsReading
      /\ TokenAllowed
      /\ QuestionValid
      /\ FieldsTyped
      /\ request.body.spread.kind = "str"
      /\ request.body.spread.val # <<"three_cards_v1">> )
    => /\ response.status = 400
       /\ response.code = "BAD_REQUEST"

\* C3 as amended: with a valid question and fields that are strings or
\* missing, the request gets 400 BAD_REQUEST if and only if its spread,
\* trimmed, is neither empty nor "three_cards_v1": a missing, an empty and a
\* blank spread are accepted, and so is "three_cards_v1" with white space
\* around it.
C3_TrimmedSpread ==
    (IsReading /\ TokenAllowed /\ QuestionValid /\ FieldsTyped)
    => LET trimmed == Strip(request.body.spread.val)
       IN  IF trimmed \in {<<>>, <<"three_cards_v1">>}
           THEN response.status # 400
           ELSE /\ response.status = 400
                /\ response.code = "BAD_REQUEST"
                /\ response.message = "Spread non supportato in demo"

C3_Witness ==
    /\ IsReading
    /\ request.body.spread = Str(<<" ", "three_cards_v1", "\n">>)
    /\ response.status = 200
    /\ response.out.meta.spread = "three_cards_v1"

\* The handler went past its checks (lines 331-345).
PassedChecks == IsReading /\ InList("detect_context", trace)

\* C4: once a request is past the question and spread checks, whatever is
\* raised while the reading is built or requested (no SDK, no credential, a
\* card that cannot be read, a failing completion call) ends as 500
\* SERVER_ERROR with the text of the exception as message; the request is
\* answered 200 or 500 SERVER_ERROR and in no other way.
C4_ServerError ==
    PassedChecks =>
        /\ \/ response.status = 200 /\ response.code = ""
           \/ response.status = 500 /\ response.code = "SERVER_ERROR"
        /\ OpenAI = "None" =>
              Failed(500, "SERVER_ERROR",
                     "OpenAI SDK non disponibile. Verifica requirements.txt.")
        /\ (OpenAI # "None" /\ Strip(OPENAI_API_KEY) = <<>>) =>
              Failed(500, "SERVER_ERROR",
                     "OPENAI_API_KEY mancante nelle env di Render.")
        /\ completion.kind = "error" =>
              Failed(500, "SERVER_ERROR", completion.message)
        /\ ( /\ OpenAI # "None"
             /\ Strip(OPENAI_API_KEY) # <<>>
             /\ completion.kind = "not_called" ) =>
              Failed(500, "SERVER_ERROR", AttributeError)
        /\ response.status = 200 => completion.kind \in {"text", "none"}

C4_Witness ==
    /\ PassedChecks
    /\ completion = UpstreamError("Rate limit reached")
    /\ response.status = 500
    /\ response.message = "Rate limit reached"

\* score[ctx] as the claim has it: the number of the keywords of ctx that
\* occur in the lower-cased question.
KeywordCount(ctx, question) ==
    IF ctx \notin DOMAIN CONTEXT_KEYWORDS THEN 0
    ELSE Cardinality({kw \in Range(CONTEXT_KEYWORDS[ctx]) :
                         KeywordIn(kw, Lower(question))})

\* C5: detect_context returns a context whose keyword count no context's
\* exceeds, and of those the first in the order relazioni, lavoro, crescita,
\* scelta, neutro; it returns "neutro" when no keyword occurs at all (the
\* empty question included).
C5_DetectContext ==
    call.fn = "detect_context" =>
        LET q == call.arg
            result == call.result
        IN  /\ \E i \in DOMAIN CONTEXTS :
                  /\ CONTEXTS[i] = result
                  /\ \A j \in DOMAIN CONTEXTS :
                        /\ KeywordCount(CONTEXTS[j], q) <= KeywordCount(result, q)
                        /\ j < i =>
                              KeywordCount(CONTEXTS[j], q) < KeywordCount(result, q)
                           \/ KeywordCount(result, q) = 0
            /\ (\A c \in Range(CONTEXTS) : KeywordCount(c, q) = 0)
                  <=> result = "neutro"
            /\ q = <<>> => result = "neutro"

\* "lasciare" counts for scelta and "lavoro" for lavoro: a tie, and lavoro
\* comes first.
C5_Witness ==
    /\ call.fn = "detect_context"
    /\ call.arg = <<"lasciare", " ", "LAVORO">>
    /\ KeywordCount("lavoro", call.arg) = 1
    /\ KeywordCount("scelta", call.arg) = 1
    /\ call.result = "lavoro"

Min(a, b) == IF a < b THEN a ELSE b

\* The entries of a sequence are pairwise different.
NoDuplicates(s) == \A i, j \in DOMAIN s : i # j => s[i] # s[j]

\* C6: draw_cards(n) returns min(n, size of the pool) cards, each an entry
\* of the pool and none twice; a reading that succeeds reports the names of
\* min(3, size of the pool) different cards of the pool.
C6_DrawCards ==
    /\ call.fn = "draw_cards" =>
          /\ Len(call.result) = Min(call.arg, Len(all_cards))
          /\ Range(call.result) \subseteq Range(all_cards)
          /\ NoDuplicates(call.result)
    /\ (IsReading /\ response.status = 200) =>
          /\ Len(response.out.meta.cards) = Min(3, Len(all_cards))
          /\ \A i \in DOMAIN response.out.meta.cards :
                \E j \in DOMAIN all_cards :
                    all_cards[j].name = response.out.meta.cards[i]
          /\ NoDuplicates(response.out.meta.cards)

C6_Witness ==
    /\ call.fn = "draw_cards"
    /\ call.arg = 3
    /\ Len(all_cards) = 4
    /\ Len(call.result) = 3
    /\ call.result[1].name > call.result[2].name

\* A reading was returned with status 200.
ReadingOk == IsReading /\ response.status = 200

\* The text the parser is given (line 274): output_text, None read as "",
\* without the white space around it.
ParserInput == Strip(completion.text)

\* The first word of the title of each section.
SectionLabels ==
    [i \in DOMAIN response.out.card_sections |->
        response.out.card_sections[i].title[1]]

\* The sections are three, under Stato, Dinamica and Direzione in that order.
ThreeLabeledSections == SectionLabels = <<"Stato", "Dinamica", "Direzione">>

\* C7 as claimed: a generated text in the layout asked for (intro, the three
\* headers in order, each with its sentences, and a closing "Sintesi" with
\* its text) is parsed into exactly three sections, one per label in that
\* order, and a synthesis that is not empty.
C7_LayoutRoundTrip ==
    (ReadingOk /\ completion.kind = "text" /\ completion.text \in LayoutTexts)
    => /\ ThreeLabeledSections
       /\ response.out.synthesis # <<>>

\* What C7 says does hold of the texts in that layout whose sentences do not
\* use the word "Sintesi".
C7_PlainLayoutRoundTrip ==
    ( /\ ReadingOk
      /\ completion.kind = "text"
      /\ completion.text \in PlainLayoutTexts )
    => /\ ThreeLabeledSections
       /\ response.out.synthesis \in {<<"w">>, <<"w", "\n", "w">>}
       /\ \A i \in 1..3 :
             response.out.card_sections[i].body \in
                 {<<"w">>, <<"w", " ", "w">>}

\* A text in the layout whose first section says "Sintesi": the parser cuts
\* the text there and is left with one section.
C7_Witness ==
    /\ ReadingOk
    /\ completion.text =
          Layout(<<"w">>, <<"\n", "\n">>, "--", <<"w">>,
                 <<"w", " ", "Sintesi", " ", "w">>, <<"w">>, <<"w">>,
                 <<"\n">>, <<"w">>)
    /\ Len(response.out.card_sections) = 1

\* C8 as claimed: every reading returned with status 200 has exactly three
\* sections, under Stato, Dinamica and Direzione in that order, whatever the
\* generated text.
C8_AlwaysThreeSections == ReadingOk => ThreeLabeledSections

\* The labels the text holds, in the order of the text.
RECURSIVE LabelsIn(_)
LabelsIn(t) ==
    IF t = <<>> THEN <<>>
    ELSE IF Head(t) \in Labels THEN <<Head(t)>> \o LabelsIn(Tail(t))
    ELSE LabelsIn(Tail(t))

\* s can be had from t by leaving entries out.
RECURSIVE IsSubsequence(_, _)
IsSubsequence(s, t) ==
    IF s = <<>> THEN TRUE
    ELSE IF t = <<>> THEN FALSE
    ELSE IF Head(s) = Head(t) THEN IsSubsequence(Tail(s), Tail(t))
    ELSE IsSubsequence(s, Tail(t))

\* C8 as amended: every reading returned with status 200 has at least one
\* section.  Either it is the single section "Lettura", or every section is
\* titled "<label> -- <card>" with a label among Stato, Dinamica and
\* Direzione, one section for each header found in the text, in the order of
\* the text: there may be fewer or more than three, and a label may be
\* missing or repeated.
C8_SectionsOrFallback ==
    ReadingOk =>
        LET sections == response.out.card_sections
        IN  /\ Len(sections) >= 1
            /\ \/ /\ Len(sections) = 1
                  /\ sections[1].title = <<"Lettura">>
               \/ /\ \A i \in DOMAIN sections :
                        /\ Len(sections[i].title) >= 4
                        /\ sections[i].title[1] \in Labels
                        /\ SubSeq(sections[i].title, 2, 4) = <<" ", "--", " ">>
                  /\ IsSubsequence(SectionLabels, LabelsIn(ParserInput))

\* A text with a "Stato" header only: one section, and not the fallback.
C8_Witness ==
    /\ ReadingOk
    /\ completion.text = <<"w", "\n">> \o Block("Stato")
    /\ SectionLabels = <<"Stato">>
    /\ response.out.card_sections[1].body = <<"w">>

\* C9: when the parser finds no labeled section in the text it is given (no
\* header of a Stato, Dinamica or Direzione section; in particular a text
\* that holds none of the three labels), the reading has exactly one
\* section, titled "Lettura", whose body is that whole text, the part from
\* "Sintesi" on included.
C9_Fallback ==
    ( /\ ReadingOk
      /\ \/ LabelsIn(ParserInput) = <<>>
         \/ FindBlocks(SplitSintesi(ParserInput).main, 1) = <<>> )
    => response.out.card_sections =
           <<[title |-> <<"Lettura">>, body |-> ParserInput]>>

C9_Witness ==
    /\ ReadingOk
    /\ completion.text = <<"w", "\n", "Sintesi", "w">>
    /\ response.out.synthesis = <<"w">>
    /\ response.out.card_sections =
           <<[title |-> <<"Lettura">>,
              body |-> <<"w", "\n", "Sintesi", "w">>]>>

\* The steps of v1_reading in the order of the code.
HandlerSteps ==
    <<"require_key", "question", "spread", "detect_context", "draw_cards",
      "ensure_openai_client", "card_brief", "responses.create", "parse">>

\* How many times x is in s.
Count(x, s) == Cardinality({i \in DOMAIN s : s[i] = x})

\* C10: the handler of POST /v1/reading runs its steps in the order auth
\* check, question check, spread check, context and draw, completion call
\* and stops at the first that fails; it calls the completion endpoint at
\* most once, and only for a request with an allowed key, a question of
\* five characters or more and a spread that is accepted; a request
\* answered 401 or 400 draws no cards and makes no call.
C10_StepOrder ==
    IsReading =>
        /\ Len(trace) <= Len(HandlerSteps)
        /\ trace = SubSeq(HandlerSteps, 1, Len(trace))
        /\ Count("responses.create", trace) <= 1
        /\ (completion # NotCalled) <=> InList("responses.create", trace)
        /\ InList("responses.create", trace) =>
              /\ TokenAllowed
              /\ QuestionValid
              /\ Strip(request.body.spread.val) \in {<<>>, <<"three_cards_v1">>}
        /\ response.status \in {400, 401} =>
              /\ ~InList("detect_context", trace)
              /\ ~InList("draw_cards", trace)
              /\ ~InList("responses.create", trace)
              /\ completion = NotCalled
        /\ response.status = 401 => trace = <<"require_key">>
        /\ response.status = 400 =>
              trace \in {<<"require_key", "question">>,
                         <<"require_key", "question", "spread">>}

C10_Witness ==
    /\ IsReading
    /\ response.status = 200
    /\ trace = HandlerSteps
    /\ completion.kind = "text"

===========================================================================
